---- MODULE Spec2Model ----
(***************************************************************************)
(* Model of src/pilnas.py: the pet feeder's main menu, the automatic       *)
(* monitoring loop (AnimalColorDetector.monitor), the detection pipeline   *)
(* (get_distance, capture_image_rpicam, detect_target_color,               *)
(* process_detection) and the servo sequence of dispense_food.             *)
(*                                                                         *)
(* Units.  Wall-clock readings (time.time()) are integers counted in       *)
(* 1/TicksPerSec seconds.  Echo durations are counted in 1/DurPerSec       *)
(* seconds (0.2 us, about the resolution of a float time.time() today).    *)
(* Raw distances are counted in 1/DistPerCm cm, returned distances         *)
(* (rounded to 2 decimals) in 1/100 cm.  Duty cycles are counted in tenths *)
(* of a percent (7.5% is 75).                                              *)
(***************************************************************************)
EXTENDS Integers, Sequences, FiniteSets, TLC

\* ------------------------------------------------------------------------
\* Program constants
\* ------------------------------------------------------------------------
ANIMAL_DETECTION_DISTANCE == 50
COLOR_THRESHOLD == 10
servo_stop == 75
servo_open == 70
servo_close == 80
MinCycleTime == 10
SOUND_FACTOR == 17150
MinDistance == 2
MaxDistance == 400
\* Python's None, for the integer-valued variables
None == -1
\* kernel = np.ones((5, 5)): the side of the structuring element
KERNEL_SIZE == 5
\* self.rotation_time = 1.0 s, in tenths of a second
rotation_time == 10
\* the food-level estimate: full at startup, and the step one dispense takes
FOOD_FULL == 100
FOOD_STEP == 60

\* ------------------------------------------------------------------------
\* Bounds of the model
\* ------------------------------------------------------------------------
\* clock resolution: ticks per second
TicksPerSec == 2
\* largest configured cycle time explored (the program accepts up to 3600)
MaxCycleTime == 10
\* the clock readings explored are 0 .. MaxClockSec seconds
MaxClockSec == 21
\* number of pixels of the modelled frame (the program captures 640x480)
MaxPixels == 20
MaxFineTicks == 2

MaxClock == MaxClockSec * TicksPerSec
DurPerSec == 5 * 10^6
PollPerSec == 10^3
DistPerCm == 10^5

\* Echo durations tried by the sensor, in 1/DurPerSec s: no echo, just below
\* and just above the 2 cm floor, 30 cm, a raw 49.999 cm that rounds to
\* 50.00, just below and just above the 400 cm ceiling.
DurSamples == {0, 583, 584, 8746, 14577, 116618, 116619}

\* Matched-pixel counts the classifier is taken to report in the loop: none,
\* 5%, 10%, 15% and 100% of a 20-pixel frame.
PixelSamples == {0, 1, 2, 3, MaxPixels}

VARIABLES
    pc,                  \* position of the single thread of control
    caller,              \* "none", "monitor" or "manual": who runs the pipeline / dispense_food
    cycle_time,          \* self.cycle_time, seconds
    servo_pwm,           \* TRUE iff self.servo_pwm is not None
    duty,                \* last duty cycle the PWM line accepted
    dstep,               \* number of ChangeDutyCycle calls dispense_food has completed
    clock,               \* last value time.time() returned
    last_detection_time, \* monitor()'s local
    current_time,        \* monitor()'s local (None before its first assignment in an iteration)
    distance,            \* monitor()'s local: result of get_distance() in this iteration
    image,               \* process_detection()'s local: "unset", "none" or "frame"
    color_pixels,        \* matched pixels of the classification of this iteration (None: not classified)
    remaining,           \* the cooldown value printed in this iteration (None: not printed)
    \* history variables (observers, never read by the program's actions)
    dur,                 \* echo duration behind `distance` (None: the measurement raised)
    ldt0,                \* last_detection_time at the start of the iteration
    calls,               \* components invoked in this iteration
    successes,           \* trigger timestamps of the dispenses that returned True in this run
    n_inrange,           \* in-range readings gated so far in this run, capped at 2
    retry,               \* "pending": the last in-range iteration passed the gate and its capture
                         \* failed; "retried": this iteration is the in-range one after it
    exc,                 \* origin of the exception raised in this iteration ("none" if none)
    dispense_end,        \* how the last dispense_food call ended
    cancelled,           \* monitor() was left by a KeyboardInterrupt caught at line 438
    exit_cause,          \* why main() ended ("none" while it runs)
    food_level,          \* the food-level estimate, percent
    cmds,                \* <<duty, hold>> of every ChangeDutyCycle call the dispense_food call
                         \* in progress (or the one that just returned) has completed; the
                         \* hold is the sleep that follows the call, in tenths of a second
    intr,                \* a KeyboardInterrupt was delivered in this iteration and swallowed
    last_open,           \* trigger time of the last dispense of this run that commanded the
                         \* open duty cycle (None: none, or a later reading of the clock was
                         \* already more than cycle_time after it, or a later iteration
                         \* has passed the gate and ended without a dispense)
    carry,               \* trigger time of the last dispense that succeeded in an earlier
                         \* run of monitor() (None: none, or a later reading of the clock
                         \* was already more than cycle_time after it, or an iteration of
                         \* this run has passed the gate and ended since)
    \* the colour profile and the classifier (specification SpecColor)
    arg,                 \* the target_color argument handed to the constructor
    base,                \* the name `arg` is a letter-case variant of
    target_color,        \* self.target_color
    color_ranges,        \* self.color_ranges
    hsv,                 \* detect_target_color's frame after cvtColor, rows of HSV triples
    matched,             \* matched[n]: the pixel count the classifier returns for the frame
                         \* with the first n range pairs of the profile
    color_percentage,    \* the value detect_target_color returns, in 1/100 percent
    \* the echo timing of one get_distance() call (specification SpecIter)
    now,                 \* the time since the call began, in 1/PollPerSec s
    pulse_start,         \* get_distance()'s locals
    pulse_end,
    timeout,
    fine_left,           \* how many more times the clock may advance by less than the
                         \* largest step
    ticked,              \* the clock has advanced since the program's last step
    timed_out            \* the wait loops that ended by their timeout

vars == <<pc, caller, cycle_time, servo_pwm, duty, dstep, clock, last_detection_time,
          current_time, distance, image, color_pixels, remaining, dur, ldt0, calls,
          successes, n_inrange, retry, exc, dispense_end, cancelled, exit_cause,
          food_level, cmds, intr, last_open, carry,
          arg, base, target_color, color_ranges, hsv, matched, color_percentage,
          now, pulse_start, pulse_end, timeout, fine_left, ticked, timed_out>>

progVars == <<cycle_time, servo_pwm, duty, dstep, clock, last_detection_time,
              current_time, distance, image, color_pixels, remaining>>
histVars == <<dur, ldt0, calls, successes, n_inrange, retry, exc, dispense_end, cancelled>>
obsVars == <<food_level, cmds, intr, last_open, carry>>
colorVars == <<arg, base, target_color, color_ranges, hsv, matched, color_percentage>>
echoVars == <<now, pulse_start, pulse_end, timeout, fine_left, ticked, timed_out>>
auxVars == <<colorVars, echoVars>>

\* ------------------------------------------------------------------------
\* Pure functions
\* ------------------------------------------------------------------------

\* round(x, 2) of a raw distance x (1/DistPerCm cm), in 1/100 cm; halves go to
\* the even neighbour, as Python's round() does.
Round2(x) ==
    LET q == x \div (DistPerCm \div 100)
        r == x % (DistPerCm \div 100)
        half == (DistPerCm \div 100) \div 2
    IN  IF r > half THEN q + 1
        ELSE IF r < half THEN q
        ELSE IF q % 2 = 0 THEN q ELSE q + 1

\* distance = duration * 17150 (line 348), in 1/DistPerCm cm
DistanceRaw(d) == d * (SOUND_FACTOR \div (DurPerSec \div DistPerCm))

\* the value get_distance() returns for echo duration d (line 349)
get_distance(d) ==
    IF MinDistance * DistPerCm < DistanceRaw(d) /\ DistanceRaw(d) < MaxDistance * DistPerCm
    THEN Round2(DistanceRaw(d))
    ELSE None

\* mutation: the threshold itself counts as in range (<= for <)
InRange_Inclusive(dist) == dist # None /\ dist # 0 /\ dist <= ANIMAL_DETECTION_DISTANCE * 100

\* `distance and distance < ANIMAL_DETECTION_DISTANCE` (line 422)
InRange(dist) == dist # None /\ dist # 0 /\ dist < ANIMAL_DETECTION_DISTANCE * 100

\* mutation: the clock reading itself is compared, not the time elapsed
GateOpen_SinceStart(cur, last, cyc) == cur > cyc * TicksPerSec

\* mutation: the gate opens when exactly cycle_time has elapsed (>= for >)
GateOpen_AtLeast(cur, last, cyc) == cur - last >= cyc * TicksPerSec

\* `current_time - last_detection_time > self.cycle_time` (line 424)
GateOpen(cur, last, cyc) == cur - last > cyc * TicksPerSec

\* int(x) of x = n/d seconds: truncation towards zero
IntTrunc(n, d) == IF n >= 0 THEN n \div d ELSE -((-n) \div d)

\* mutation: the parentheses around the elapsed time are missing
RemainingOf_NoParens(cur, last, cyc) == IntTrunc(cyc * TicksPerSec - cur - last, TicksPerSec)

\* int(self.cycle_time - (current_time - last_detection_time)) (line 430)
RemainingOf(cur, last, cyc) == IntTrunc(cyc * TicksPerSec - (cur - last), TicksPerSec)

\* mutation: the matched-pixel count is not divided by the frame size
ColorMatch_NoTotal(n) == n * 100 >= COLOR_THRESHOLD

\* `color_percentage >= COLOR_THRESHOLD` with
\* color_percentage = (color_pixels / total_pixels) * 100 (lines 386, 400)
ColorMatch(n) == n * 100 >= COLOR_THRESHOLD * MaxPixels

\* mutation: the two phases are swapped
DispenseSeq_CloseFirst == <<servo_close, servo_stop, 0, servo_open, servo_stop, 0>>

\* the duty cycles dispense_food commands, in order (lines 167-177, 156-158)
DispenseSeq == <<servo_open, servo_stop, 0, servo_close, servo_stop, 0>>

\* the sleep that follows each of these calls, in tenths of a second:
\* rotation_time after open and close (lines 168, 176), 0.1 inside stop_servo
\* (line 157), 0.2 between the two phases (line 172), none after the last
DispenseHold == <<rotation_time, 1, 2, rotation_time, 1, 0>>

\* mutation: the estimate is not floored
FoodAfterDispense_NoFloor(f) == f - FOOD_STEP

\* the food-level estimate after one successful dispense: one fixed step
\* down, floored at 0
FoodAfterDispense(f) == IF f > FOOD_STEP THEN f - FOOD_STEP ELSE 0

\* an observed trigger time, forgotten once the clock reading t lies more
\* than the cooldown after it
Recent(t0, t, cyc) == IF t0 # None /\ t - t0 > cyc * TicksPerSec THEN None ELSE t0

\* ------------------------------------------------------------------------
\* Initial state: main() has read the configuration and built the detector
\* ------------------------------------------------------------------------
\* the colour profile and the frame are not looked at by the loop's actions
ColorIdle ==
    /\ arg = <<>>
    /\ base = <<>>
    /\ target_color = <<>>
    /\ color_ranges = <<>>
    /\ hsv = <<>>
    /\ matched = <<>>
    /\ color_percentage = None

\* no get_distance() call is being timed
EchoIdle ==
    /\ now = 0
    /\ pulse_start = None
    /\ pulse_end = None
    /\ timeout = None
    /\ fine_left = 0
    /\ ticked = FALSE
    /\ timed_out = {}

\* The constructor either fails to acquire the PWM line (servo_pwm stays
\* None, lines 58-70) or starts it at 0 and stops it, which leaves duty 0.
\* The clock starts at 0 and every later reading is at least the last one:
\* the clock is any non-decreasing one.
Init ==
    /\ pc = "menu"
    /\ caller = "none"
    /\ cycle_time \in MinCycleTime..MaxCycleTime
    /\ servo_pwm \in BOOLEAN
    /\ duty = 0
    /\ dstep = 0
    /\ clock = 0
    /\ last_detection_time = 0
    /\ current_time = None
    /\ distance = None
    /\ image = "unset"
    /\ color_pixels = None
    /\ remaining = None
    /\ dur = None
    /\ ldt0 = 0
    /\ calls = {}
    /\ successes = <<>>
    /\ n_inrange = 0
    /\ retry = "no"
    /\ exc = "none"
    /\ dispense_end = "none"
    /\ cancelled = FALSE
    /\ exit_cause = "none"
    /\ food_level = FOOD_FULL
    /\ cmds = <<>>
    /\ intr = FALSE
    /\ last_open = None
    /\ carry = None
    /\ ColorIdle
    /\ EchoIdle

\* the locals and the per-iteration history as they are when an iteration starts
IterReset ==
    /\ current_time' = None
    /\ distance' = None
    /\ image' = "unset"
    /\ color_pixels' = None
    /\ remaining' = None
    /\ dur' = None
    /\ ldt0' = last_detection_time
    /\ calls' = {}
    /\ exc' = "none"
    /\ dispense_end' = "none"
    /\ retry' = IF retry = "retried" THEN "no" ELSE retry
    /\ cmds' = <<>>
    /\ intr' = FALSE
    /\ carry' = IF "capture" \in calls THEN None ELSE carry
    /\ last_open' = IF "capture" \in calls /\ "dispense" \notin calls THEN None ELSE last_open

\* monitor() has returned or been unwound: its locals and those of the calls
\* below it are gone, and the history of the run is closed
RunReset ==
    /\ last_detection_time' = 0
    /\ dstep' = 0
    /\ successes' = <<>>
    /\ n_inrange' = 0
    /\ retry' = "no"
    /\ current_time' = None
    /\ distance' = None
    /\ image' = "unset"
    /\ color_pixels' = None
    /\ remaining' = None
    /\ dur' = None
    /\ ldt0' = 0
    /\ calls' = {}
    /\ exc' = "none"
    /\ cmds' = <<>>
    /\ intr' = FALSE
    /\ last_open' = None

\* ------------------------------------------------------------------------
\* cleanup() as main()'s finally block runs it, and the end of main()
\* ------------------------------------------------------------------------
Cleanup(cause) ==
    /\ pc' = "exited"
    /\ exit_cause' = cause
    /\ caller' = "none"
    /\ IF servo_pwm
       THEN \/ duty' = 0 /\ servo_pwm' = FALSE
            \* a signaling call raises: the bare except swallows it
            \/ duty' = duty /\ servo_pwm' = servo_pwm
            \/ duty' = servo_stop /\ servo_pwm' = servo_pwm
       ELSE duty' = duty /\ servo_pwm' = servo_pwm
    /\ RunReset
    /\ carry' = None
    /\ UNCHANGED <<cycle_time, clock, dispense_end, cancelled, food_level>>

\* ------------------------------------------------------------------------
\* An exception (not KeyboardInterrupt) leaves the pipeline at `origin`
\* ------------------------------------------------------------------------
Raise(origin) ==
    IF caller = "monitor"
    THEN /\ pc' = "except"
         /\ exc' = origin
         /\ dispense_end' = IF origin = "dispense" THEN "raised" ELSE dispense_end
         /\ dstep' = 0
         /\ UNCHANGED <<caller, cycle_time, servo_pwm, duty, clock,
                        last_detection_time, current_time, distance, image, color_pixels,
                        remaining, dur, ldt0, calls, successes, n_inrange, retry, cancelled,
                        exit_cause, food_level, intr, last_open, carry>>
         /\ cmds' = <<>>
    ELSE Cleanup("error")

\* ------------------------------------------------------------------------
\* main(): the menu
\* ------------------------------------------------------------------------
MenuMonitor ==
    /\ pc = "menu"
    /\ pc' = "get_distance"
    /\ caller' = "monitor"
    /\ RunReset
    /\ cancelled' = FALSE
    /\ dispense_end' = "none"
    /\ UNCHANGED <<cycle_time, servo_pwm, duty, clock, exit_cause, food_level, carry>>
    /\ UNCHANGED auxVars

MenuManual ==
    /\ pc = "menu"
    /\ pc' = "manual"
    /\ caller' = "manual"
    /\ UNCHANGED progVars
    /\ UNCHANGED histVars
    /\ UNCHANGED exit_cause
    /\ UNCHANGED obsVars
    /\ UNCHANGED auxVars

MenuExit ==
    /\ pc = "menu"
    /\ Cleanup("exit")
    /\ UNCHANGED auxVars

ManualBack ==
    /\ pc = "manual"
    /\ pc' = "menu"
    /\ caller' = "none"
    /\ cmds' = <<>>
    /\ UNCHANGED progVars
    /\ UNCHANGED histVars
    /\ UNCHANGED <<exit_cause, food_level, intr, last_open, carry>>
    /\ UNCHANGED auxVars

\* options 1 and 3 of the manual menu call dispense_food()
ManualDispense ==
    /\ pc = "manual"
    /\ pc' = "dispense"
    /\ dstep' = 0
    /\ dispense_end' = "running"
    /\ cmds' = <<>>
    /\ UNCHANGED <<caller, cycle_time, servo_pwm, duty, clock, last_detection_time,
                   current_time, distance, image, color_pixels, remaining, dur, ldt0, calls,
                   successes, n_inrange, retry, exc, cancelled, exit_cause, food_level,
                   intr, last_open, carry>>
    /\ UNCHANGED auxVars

\* ------------------------------------------------------------------------
\* monitor(): one iteration
\* ------------------------------------------------------------------------
GetDistance ==
    /\ pc = "get_distance"
    /\ pc' = "gate"
    /\ \/ \E d \in DurSamples : dur' = d /\ distance' = get_distance(d) /\ intr' = intr
       \* anything raised inside is swallowed by the bare except (line 350):
       \* a GPIO error,
       \/ dur' = None /\ distance' = None /\ intr' = intr
       \* or a KeyboardInterrupt
       \/ dur' = None /\ distance' = None /\ intr' = TRUE
    /\ UNCHANGED <<caller, cycle_time, servo_pwm, duty, dstep, clock, last_detection_time,
                   current_time, image, color_pixels, remaining, ldt0, calls, successes,
                   n_inrange, retry, exc, dispense_end, cancelled, exit_cause, food_level,
                   cmds, last_open, carry>>
    /\ UNCHANGED auxVars

Gate ==
    /\ pc = "gate"
    /\ IF InRange(distance)
       THEN \E t \in clock..MaxClock :
              /\ clock' = t
              /\ current_time' = t
              /\ n_inrange' = IF n_inrange < 2 THEN n_inrange + 1 ELSE n_inrange
              /\ retry' = IF retry = "pending" THEN "retried" ELSE "no"
              /\ IF GateOpen(t, last_detection_time, cycle_time)
                 THEN pc' = "capture" /\ remaining' = None
                 ELSE /\ pc' = "sleep"
                      /\ remaining' = RemainingOf(t, last_detection_time, cycle_time)
              /\ last_open' = Recent(last_open, t, cycle_time)
              /\ carry' = Recent(carry, t, cycle_time)
       ELSE /\ pc' = "sleep"
            /\ UNCHANGED <<clock, current_time, n_inrange, retry, remaining, last_open,
                           carry>>
    /\ UNCHANGED <<caller, cycle_time, servo_pwm, duty, dstep, last_detection_time, distance,
                   image, color_pixels, dur, ldt0, calls, successes, exc, dispense_end,
                   cancelled, exit_cause, food_level, cmds, intr>>
    /\ UNCHANGED auxVars

\* mutation: a failed capture makes process_detection() return True
Capture_FailReturnsTrue ==
    /\ pc = "capture"
    /\ calls' = calls \cup {"capture"}
    /\ \/ /\ image' = "frame"
          /\ pc' = "classify"
          /\ retry' = retry
       \/ /\ image' = "none"
          /\ pc' = "update"
          /\ retry' = "pending"
    /\ UNCHANGED <<caller, cycle_time, servo_pwm, duty, dstep, clock, last_detection_time,
                   current_time, distance, color_pixels, remaining, dur, ldt0, successes,
                   n_inrange, exc, dispense_end, cancelled, exit_cause>>
    /\ UNCHANGED obsVars
    /\ UNCHANGED auxVars

Capture ==
    /\ pc = "capture"
    /\ calls' = calls \cup {"capture"}
    /\ \/ /\ image' = "frame"
          /\ pc' = "classify"
          /\ retry' = retry
          /\ intr' = intr
       \* non-zero exit, unreadable file, timeout, or anything raised inside
       \* the try and swallowed by the bare except (line 363):
       \* process_detection returns False
       \/ /\ image' = "none"
          /\ pc' = "sleep"
          /\ retry' = "pending"
          \* what was raised may be a KeyboardInterrupt
          /\ intr' \in {intr, TRUE}
    /\ UNCHANGED <<caller, cycle_time, servo_pwm, duty, dstep, clock, last_detection_time,
                   current_time, distance, color_pixels, remaining, dur, ldt0, successes,
                   n_inrange, exc, dispense_end, cancelled, exit_cause, food_level, cmds,
                   last_open, carry>>
    /\ UNCHANGED auxVars

Classify ==
    /\ pc = "classify"
    /\ \/ /\ \E n \in PixelSamples : color_pixels' = n
          /\ pc' = "decide"
          /\ calls' = calls \cup {"classify"}
          /\ UNCHANGED <<caller, cycle_time, servo_pwm, duty, dstep, clock,
                         last_detection_time, current_time, distance, image, remaining, dur,
                         ldt0, successes, n_inrange, retry, exc, dispense_end, cancelled,
                         exit_cause>>
          /\ UNCHANGED obsVars
       \* an OpenCV error propagates out of process_detection
       \/ Raise("classify")
    /\ UNCHANGED auxVars

Decide ==
    /\ pc = "decide"
    /\ IF ColorMatch(color_pixels)
       THEN /\ pc' = "dispense"
            /\ dstep' = 0
            /\ calls' = calls \cup {"dispense"}
            /\ dispense_end' = "running"
       ELSE /\ pc' = "sleep"
            /\ UNCHANGED <<dstep, calls, dispense_end>>
    /\ UNCHANGED <<caller, cycle_time, servo_pwm, duty, clock, last_detection_time,
                   current_time, distance, image, color_pixels, remaining, dur, ldt0,
                   successes, n_inrange, retry, exc, cancelled, exit_cause>>
    /\ UNCHANGED obsVars
    /\ UNCHANGED auxVars

\* one ChangeDutyCycle call of dispense_food / stop_servo; the sleeps lie
\* between two such steps
DispenseStep ==
    /\ pc = "dispense"
    /\ servo_pwm
    /\ dstep < Len(DispenseSeq)
    /\ \/ /\ duty' = DispenseSeq[dstep + 1]
          /\ dstep' = dstep + 1
          /\ cmds' = Append(cmds, <<DispenseSeq[dstep + 1], DispenseHold[dstep + 1]>>)
          /\ last_open' = IF caller = "monitor" /\ DispenseSeq[dstep + 1] = servo_open
                          THEN current_time ELSE last_open
          /\ UNCHANGED <<pc, caller, cycle_time, servo_pwm, clock, last_detection_time,
                         current_time, distance, image, color_pixels, remaining, dur, ldt0,
                         calls, successes, n_inrange, retry, exc, dispense_end, cancelled,
                         exit_cause, food_level, intr, carry>>
       \* the signaling call raises and the line keeps its last duty cycle
       \/ Raise("dispense")
    /\ UNCHANGED auxVars

\* dispense_food returns (at once when there is no servo)
DispenseReturn ==
    /\ pc = "dispense"
    /\ ~servo_pwm \/ dstep = Len(DispenseSeq)
    /\ pc' = IF caller = "monitor" THEN "update" ELSE "manual"
    /\ dispense_end' = "returned"
    /\ dstep' = 0
    /\ UNCHANGED <<caller, cycle_time, servo_pwm, duty, clock, last_detection_time,
                   current_time, distance, image, color_pixels, remaining, dur, ldt0, calls,
                   successes, n_inrange, retry, exc, cancelled, exit_cause>>
    /\ UNCHANGED obsVars
    /\ UNCHANGED auxVars

\* mutation: the trigger timestamp is not stored
Update_NoTimestamp ==
    /\ pc = "update"
    /\ pc' = "sleep"
    /\ successes' = Append(successes, current_time)
    /\ food_level' = FoodAfterDispense(food_level)
    /\ cmds' = <<>>
    /\ UNCHANGED <<caller, cycle_time, servo_pwm, duty, dstep, clock, last_detection_time,
                   current_time, distance, image, color_pixels, remaining, dur, ldt0, calls,
                   n_inrange, retry, exc, dispense_end, cancelled, exit_cause, intr,
                   last_open, carry>>
    /\ UNCHANGED auxVars

\* process_detection() returned True: line 427
Update ==
    /\ pc = "update"
    /\ pc' = "sleep"
    /\ last_detection_time' = current_time
    /\ successes' = Append(successes, current_time)
    /\ food_level' = FoodAfterDispense(food_level)
    /\ cmds' = <<>>
    /\ UNCHANGED <<caller, cycle_time, servo_pwm, duty, dstep, clock, current_time, distance,
                   image, color_pixels, remaining, dur, ldt0, calls, n_inrange, retry, exc,
                   dispense_end, cancelled, exit_cause, intr, last_open, carry>>
    /\ UNCHANGED auxVars

\* time.sleep(0.5), then the next iteration
Sleep ==
    /\ pc = "sleep"
    /\ pc' = "get_distance"
    /\ IterReset
    /\ UNCHANGED <<caller, cycle_time, servo_pwm, duty, dstep, clock, last_detection_time,
                   successes, n_inrange, cancelled, exit_cause, food_level>>
    /\ UNCHANGED auxVars

\* mutation: the except clause leaves the loop (break for continue)
ExceptHandler_Break ==
    /\ pc = "except"
    /\ pc' = "menu"
    /\ caller' = "none"
    /\ RunReset
    /\ UNCHANGED <<cycle_time, servo_pwm, duty, clock, dispense_end, cancelled, exit_cause,
                   food_level, carry>>
    /\ UNCHANGED auxVars

\* except Exception: print, time.sleep(1), then the next iteration
ExceptHandler ==
    /\ pc = "except"
    /\ pc' = "get_distance"
    /\ IterReset
    /\ UNCHANGED <<caller, cycle_time, servo_pwm, duty, dstep, clock, last_detection_time,
                   successes, n_inrange, cancelled, exit_cause, food_level>>
    /\ UNCHANGED auxVars

\* ------------------------------------------------------------------------
\* KeyboardInterrupt
\* ------------------------------------------------------------------------
TryBody == {"get_distance", "gate", "capture", "classify", "decide", "dispense", "update",
            "sleep"}

\* raised inside monitor()'s try: caught at line 438, break, back to the menu
InterruptMonitor ==
    /\ caller = "monitor"
    /\ pc \in TryBody
    /\ pc' = "menu"
    /\ caller' = "none"
    /\ cancelled' = TRUE
    /\ dispense_end' = IF pc = "dispense" THEN "interrupted" ELSE dispense_end
    /\ carry' = IF successes # <<>> THEN successes[Len(successes)] ELSE carry
    /\ RunReset
    /\ UNCHANGED <<cycle_time, servo_pwm, duty, clock, exit_cause, food_level>>
    /\ UNCHANGED auxVars

\* raised in the except handler's sleep, at the menus or in a manual dispense:
\* caught by main() at line 518, which cleans up and ends
InterruptMain ==
    /\ \/ caller = "monitor" /\ pc = "except"
       \/ pc \in {"menu", "manual"}
       \/ caller = "manual" /\ pc = "dispense"
    /\ Cleanup("interrupt")
    /\ UNCHANGED auxVars

Next ==
    \/ MenuMonitor
    \/ MenuManual
    \/ MenuExit
    \/ ManualBack
    \/ ManualDispense
    \/ GetDistance
    \/ Gate
    \/ Capture
    \/ Classify
    \/ Decide
    \/ DispenseStep
    \/ DispenseReturn
    \/ Update
    \/ Sleep
    \/ ExceptHandler
    \/ InterruptMonitor
    \/ InterruptMain

Spec == Init /\ [][Next]_vars


\* ------------------------------------------------------------------------
\* The colour profile: __init__ (line 45) and setup_color_ranges
\* ------------------------------------------------------------------------
\* A name is a sequence of one-character strings.
UpperLetters == <<"A", "B", "C", "D", "E", "F", "G", "H", "I", "J", "K", "L", "M",
                  "N", "O", "P", "Q", "R", "S", "T", "U", "V", "W", "X", "Y", "Z">>
LowerLetters == <<"a", "b", "c", "d", "e", "f", "g", "h", "i", "j", "k", "l", "m",
                  "n", "o", "p", "q", "r", "s", "t", "u", "v", "w", "x", "y", "z">>

\* str.lower() on one character
LowerChar(c) ==
    IF \E i \in DOMAIN UpperLetters : UpperLetters[i] = c
    THEN LowerLetters[CHOOSE i \in DOMAIN UpperLetters : UpperLetters[i] = c]
    ELSE c

\* mutation: the name is stored as given
Lower_AsGiven(name) == name

\* target_color.lower() (line 45)
Lower(name) == [i \in DOMAIN name |-> LowerChar(name[i])]

brown == <<"b", "r", "o", "w", "n">>
black == <<"b", "l", "a", "c", "k">>
white == <<"w", "h", "i", "t", "e">>
gray == <<"g", "r", "a", "y">>
orange == <<"o", "r", "a", "n", "g", "e">>
yellow == <<"y", "e", "l", "l", "o", "w">>
red == <<"r", "e", "d">>
green == <<"g", "r", "e", "e", "n">>
blue == <<"b", "l", "u", "e">>
tan == <<"t", "a", "n">>

\* self.all_color_ranges (lines 103-145): name -> range pairs <<lower, upper>>
all_color_ranges ==
    (brown :> << <<<<10, 50, 50>>, <<20, 255, 200>>>>,
                 <<<<5, 40, 40>>, <<15, 200, 150>>>>,
                 <<<<8, 60, 30>>, <<22, 255, 180>>>>,
                 <<<<15, 30, 30>>, <<25, 200, 200>>>> >>)
    @@ (black :> << <<<<0, 0, 0>>, <<180, 255, 30>>>>,
                    <<<<0, 0, 0>>, <<180, 30, 50>>>> >>)
    @@ (white :> << <<<<0, 0, 200>>, <<180, 30, 255>>>>,
                    <<<<0, 0, 150>>, <<180, 20, 255>>>> >>)
    @@ (gray :> << <<<<0, 0, 50>>, <<180, 30, 150>>>> >>)
    @@ (orange :> << <<<<5, 100, 100>>, <<15, 255, 255>>>>,
                     <<<<10, 100, 100>>, <<20, 255, 255>>>> >>)
    @@ (yellow :> << <<<<20, 100, 100>>, <<30, 255, 255>>>>,
                     <<<<25, 50, 50>>, <<35, 255, 255>>>> >>)
    @@ (red :> << <<<<0, 100, 100>>, <<10, 255, 255>>>>,
                  <<<<170, 100, 100>>, <<180, 255, 255>>>> >>)
    @@ (green :> << <<<<40, 50, 50>>, <<80, 255, 255>>>>,
                    <<<<35, 40, 40>>, <<85, 255, 200>>>> >>)
    @@ (blue :> << <<<<100, 50, 50>>, <<130, 255, 255>>>>,
                   <<<<90, 50, 50>>, <<140, 255, 255>>>> >>)
    @@ (tan :> << <<<<15, 20, 50>>, <<25, 100, 200>>>>,
                  <<<<10, 15, 60>>, <<20, 60, 180>>>> >>)

\* The names the constructor is tried with: every letter-case variant of the
\* ten known names and of three unknown ones (another word, a known name
\* with a trailing blank, the empty name).
BaseNames == DOMAIN all_color_ranges
                \cup {<<"p", "i", "n", "k">>, <<"r", "e", "d", " ">>, <<>>}

UpperChar(c) ==
    IF \E i \in DOMAIN LowerLetters : LowerLetters[i] = c
    THEN UpperLetters[CHOOSE i \in DOMAIN LowerLetters : LowerLetters[i] = c]
    ELSE c

CaseVariants(name) ==
    {[i \in DOMAIN name |-> IF i \in S THEN UpperChar(name[i]) ELSE name[i]] :
        S \in SUBSET DOMAIN name}

InitColor ==
    /\ pc = "construct"
    /\ caller = "none"
    /\ cycle_time = MinCycleTime
    /\ servo_pwm = TRUE
    /\ duty = 0
    /\ dstep = 0
    /\ clock = 0
    /\ last_detection_time = 0
    /\ current_time = None
    /\ distance = None
    /\ image = "unset"
    /\ color_pixels = None
    /\ remaining = None
    /\ dur = None
    /\ ldt0 = 0
    /\ calls = {}
    /\ successes = <<>>
    /\ n_inrange = 0
    /\ retry = "no"
    /\ exc = "none"
    /\ dispense_end = "none"
    /\ cancelled = FALSE
    /\ exit_cause = "none"
    /\ food_level = FOOD_FULL
    /\ cmds = <<>>
    /\ intr = FALSE
    /\ last_open = None
    /\ carry = None
    /\ base \in BaseNames
    /\ arg \in CaseVariants(base)
    /\ target_color = <<>>
    /\ color_ranges = <<>>
    /\ hsv = <<>>
    /\ matched = <<>>
    /\ color_percentage = None
    /\ EchoIdle

mainVars == <<caller, progVars, histVars, exit_cause, obsVars>>

\* AnimalColorDetector(target_color, cycle_time): line 45, then
\* setup_color_ranges() (line 73)
Construct ==
    /\ pc = "construct"
    /\ pc' = "ready"
    /\ IF Lower(arg) \in DOMAIN all_color_ranges
       THEN /\ target_color' = Lower(arg)
            /\ color_ranges' = all_color_ranges[Lower(arg)]
       ELSE /\ target_color' = brown
            /\ color_ranges' = all_color_ranges[brown]
    /\ UNCHANGED <<arg, base, hsv, matched, color_percentage>>
    /\ UNCHANGED <<mainVars, echoVars>>

\* ------------------------------------------------------------------------
\* The classifier: detect_target_color
\* ------------------------------------------------------------------------
\* The frames tried: every frame of these shapes <<rows, columns>> whose
\* pixels are among these HSV triples. The first triple lies in the first
\* three brown ranges and both orange ones, the second in the fourth brown
\* range and the first tan one, the third in the second black range only.
FrameShapes == {<<1, 6>>, <<2, 3>>}
HSVSamples == {<<12, 120, 120>>, <<22, 40, 190>>, <<0, 0, 40>>}

\* cv2.inRange on one pixel: both bounds are inclusive
InRangeHSV(p, r) == \A k \in 1..3 : r[1][k] <= p[k] /\ p[k] <= r[2][k]

\* mutation: the masks are combined by bitwise_and
CombinedMask_And(img, ranges) ==
    [y \in DOMAIN img |-> [x \in DOMAIN img[y] |->
        \A i \in DOMAIN ranges : InRangeHSV(img[y][x], ranges[i])]]

\* the bitwise_or of the inRange masks of all range pairs (lines 369-373)
CombinedMask(img, ranges) ==
    [y \in DOMAIN img |-> [x \in DOMAIN img[y] |->
        \E i \in DOMAIN ranges : InRangeHSV(img[y][x], ranges[i])]]

\* the pixels of mask m under the 5x5 kernel centred at row y, column x;
\* what the kernel covers outside the image does not count
Window(m, y, x) ==
    {q \in ((y - KERNEL_SIZE \div 2)..(y + KERNEL_SIZE \div 2))
             \X ((x - KERNEL_SIZE \div 2)..(x + KERNEL_SIZE \div 2)) :
        q[1] \in DOMAIN m /\ q[2] \in DOMAIN m[q[1]]}

Dilate(m) ==
    [y \in DOMAIN m |-> [x \in DOMAIN m[y] |-> \E q \in Window(m, y, x) : m[q[1]][q[2]]]]

Erode(m) ==
    [y \in DOMAIN m |-> [x \in DOMAIN m[y] |-> \A q \in Window(m, y, x) : m[q[1]][q[2]]]]

\* cv2.morphologyEx(mask, cv2.MORPH_CLOSE, kernel) and MORPH_OPEN (lines 376-377)
MorphClose(m) == Erode(Dilate(m))
MorphOpen(m) == Dilate(Erode(m))

\* cv2.countNonZero
CountNonZero(m) == Cardinality({q \in (DOMAIN m) \X (DOMAIN m[1]) : m[q[1]][q[2]]})

\* color_pixels of detect_target_color for frame img and the given range pairs
ColorPixels(img, ranges) == CountNonZero(MorphOpen(MorphClose(CombinedMask(img, ranges))))

\* (color_pixels / total_pixels) * 100 (line 386), in 1/100 percent, cut off
ColorPercentage(img, ranges) ==
    (ColorPixels(img, ranges) * 10000) \div (Len(img) * Len(img[1]))

\* a frame arrives; the name the detector was built from plays no part any more
LoadFrame ==
    /\ pc = "ready"
    /\ pc' = "classify_frame"
    /\ \E shape \in FrameShapes :
         \E img \in [1..shape[1] -> [1..shape[2] -> HSVSamples]] : hsv' = img
    /\ arg' = <<>>
    /\ base' = <<>>
    /\ UNCHANGED <<target_color, color_ranges, matched, color_percentage>>
    /\ UNCHANGED <<mainVars, echoVars>>

\* detect_target_color(image) with the profile, and, to compare, with every
\* shorter list of the profile's range pairs
DetectTargetColor ==
    /\ pc = "classify_frame"
    /\ pc' = "classified"
    /\ matched' = [n \in 0..Len(color_ranges) |->
                      ColorPixels(hsv, SubSeq(color_ranges, 1, n))]
    /\ color_percentage' = ColorPercentage(hsv, color_ranges)
    /\ UNCHANGED <<arg, base, target_color, color_ranges, hsv>>
    /\ UNCHANGED <<mainVars, echoVars>>

NextColor ==
    \/ Construct
    \/ LoadFrame
    \/ DetectTargetColor

SpecColor == InitColor /\ [][NextColor]_vars

\* ------------------------------------------------------------------------
\* One iteration of monitor() with get_distance() followed read by read
\* ------------------------------------------------------------------------
\* `now` counts 1/PollPerSec s (1 ms) from the start of the call; the code
\* only compares and subtracts clock readings. Time passes between the
\* program's steps, in steps of 1 ms or 166 ms; the 1 ms steps are limited
\* to MaxFineTicks per call, and the long ones happen inside the wait loops
\* and stop at the loop's timeout. Between two steps of the program the
\* clock advances at most once.
TickSamples == {1, 166}
CoarseTick == CHOOSE j \in TickSamples : \A k \in TickSamples : k <= j

\* the 0.5 s of lines 338 and 343
TIMEOUT == PollPerSec \div 2

EchoLoopPcs == {"wait_high", "wait_high_body", "wait_low", "wait_low_body"}
EchoPcs == {"trigger", "set_timeout", "read_end", "set_timeout2", "compute"} \cup EchoLoopPcs

\* the iteration has ended: time.sleep(0.5) at line 436, or the handler's
\* time.sleep(1) at line 443
IterEnd == {"sleep", "except"}

InitIter ==
    /\ pc = "trigger"
    /\ caller = "monitor"
    /\ cycle_time \in MinCycleTime..MaxCycleTime
    /\ servo_pwm \in BOOLEAN
    /\ duty = 0
    /\ dstep = 0
    /\ clock = 0
    /\ last_detection_time = 0
    /\ current_time = None
    /\ distance = None
    /\ image = "unset"
    /\ color_pixels = None
    /\ remaining = None
    /\ dur = None
    /\ ldt0 = 0
    /\ calls = {}
    /\ successes = <<>>
    /\ n_inrange = 0
    /\ retry = "no"
    /\ exc = "none"
    /\ dispense_end = "none"
    /\ cancelled = FALSE
    /\ exit_cause = "none"
    /\ food_level = FOOD_FULL
    /\ cmds = <<>>
    /\ intr = FALSE
    /\ last_open = None
    /\ carry = None
    /\ ColorIdle
    /\ now = 0
    /\ pulse_start = None
    /\ pulse_end = None
    /\ timeout = None
    /\ fine_left = MaxFineTicks
    /\ ticked = FALSE
    /\ timed_out = {}

\* time passes while get_distance() runs
Tick ==
    /\ pc \in EchoPcs
    /\ ~ticked
    /\ ticked' = TRUE
    /\ \E j \in TickSamples :
         IF j < CoarseTick
         THEN /\ fine_left > 0
              /\ fine_left' = fine_left - 1
              /\ now' = now + j
         \* the long step, or what is left until the timeout if that is less
         ELSE /\ pc \in EchoLoopPcs
              /\ now < timeout
              /\ fine_left' = fine_left
              /\ now' = IF now + j > timeout THEN timeout ELSE now + j
    /\ UNCHANGED <<pc, pulse_start, pulse_end, timeout, timed_out>>
    /\ UNCHANGED <<mainVars, colorVars>>

\* the trigger pulse (lines 331-335), then pulse_start = time.time() (line 337)
EchoStart ==
    /\ ticked' = FALSE
    /\ pc = "trigger"
    /\ pc' = "set_timeout"
    /\ pulse_start' = now
    /\ UNCHANGED <<now, pulse_end, timeout, fine_left, timed_out>>
    /\ UNCHANGED <<mainVars, colorVars>>

\* timeout = time.time() + 0.5 (line 338)
SetTimeout ==
    /\ ticked' = FALSE
    /\ pc = "set_timeout"
    /\ pc' = "wait_high"
    /\ timeout' = now + TIMEOUT
    /\ UNCHANGED <<now, pulse_start, pulse_end, fine_left, timed_out>>
    /\ UNCHANGED <<mainVars, colorVars>>

\* mutation: the loop only watches the echo line
WaitCond_NoTimeout(level, echo, t, limit) == echo = level

\* `GPIO.input(ECHO_PIN) == level and time.time() < timeout` (lines 339, 344)
WaitCond(level, echo, t, limit) == echo = level /\ t < limit

\* while GPIO.input(ECHO_PIN) == 0 and time.time() < timeout (line 339);
\* the echo line may read anything
WaitHigh ==
    /\ ticked' = FALSE
    /\ pc = "wait_high"
    /\ \E echo \in {0, 1} :
         IF WaitCond(0, echo, now, timeout)
         THEN pc' = "wait_high_body" /\ timed_out' = timed_out
         ELSE /\ pc' = "read_end"
              /\ timed_out' = IF echo = 0 THEN timed_out \cup {"high"} ELSE timed_out
    /\ UNCHANGED <<now, pulse_start, pulse_end, timeout, fine_left>>
    /\ UNCHANGED <<mainVars, colorVars>>

\* pulse_start = time.time() (line 340)
WaitHighBody ==
    /\ ticked' = FALSE
    /\ pc = "wait_high_body"
    /\ pc' = "wait_high"
    /\ pulse_start' = now
    /\ UNCHANGED <<now, pulse_end, timeout, fine_left, timed_out>>
    /\ UNCHANGED <<mainVars, colorVars>>

\* pulse_end = time.time() (line 342)
ReadEnd ==
    /\ ticked' = FALSE
    /\ pc = "read_end"
    /\ pc' = "set_timeout2"
    /\ pulse_end' = now
    /\ UNCHANGED <<now, pulse_start, timeout, fine_left, timed_out>>
    /\ UNCHANGED <<mainVars, colorVars>>

\* timeout = time.time() + 0.5 (line 343)
SetTimeout2 ==
    /\ ticked' = FALSE
    /\ pc = "set_timeout2"
    /\ pc' = "wait_low"
    /\ timeout' = now + TIMEOUT
    /\ UNCHANGED <<now, pulse_start, pulse_end, fine_left, timed_out>>
    /\ UNCHANGED <<mainVars, colorVars>>

\* while GPIO.input(ECHO_PIN) == 1 and time.time() < timeout (line 344)
WaitLow ==
    /\ ticked' = FALSE
    /\ pc = "wait_low"
    /\ \E echo \in {0, 1} :
         IF WaitCond(1, echo, now, timeout)
         THEN pc' = "wait_low_body" /\ timed_out' = timed_out
         ELSE /\ pc' = "compute"
              /\ timed_out' = IF echo = 1 THEN timed_out \cup {"low"} ELSE timed_out
    /\ UNCHANGED <<now, pulse_start, pulse_end, timeout, fine_left>>
    /\ UNCHANGED <<mainVars, colorVars>>

\* pulse_end = time.time() (line 345)
WaitLowBody ==
    /\ ticked' = FALSE
    /\ pc = "wait_low_body"
    /\ pc' = "wait_low"
    /\ pulse_end' = now
    /\ UNCHANGED <<now, pulse_start, timeout, fine_left, timed_out>>
    /\ UNCHANGED <<mainVars, colorVars>>

\* the locals of get_distance() are gone when it returns
EchoReturn ==
    /\ pc' = "gate"
    /\ now' = 0
    /\ pulse_start' = None
    /\ pulse_end' = None
    /\ timeout' = None
    /\ fine_left' = 0
    /\ ticked' = FALSE
    /\ UNCHANGED timed_out
    /\ UNCHANGED <<caller, cycle_time, servo_pwm, duty, dstep, clock, last_detection_time,
                   current_time, image, color_pixels, remaining, ldt0, calls, successes,
                   n_inrange, retry, exc, dispense_end, cancelled, exit_cause>>
    /\ UNCHANGED <<obsVars, colorVars>>

\* duration, distance and the returned value (lines 347-349)
EchoCompute ==
    /\ pc = "compute"
    /\ dur' = (pulse_end - pulse_start) * (DurPerSec \div PollPerSec)
    /\ distance' = get_distance((pulse_end - pulse_start) * (DurPerSec \div PollPerSec))
    /\ EchoReturn

\* a GPIO call raises: the bare except returns None (lines 350-351)
EchoRaise ==
    /\ pc \in EchoPcs
    /\ dur' = None
    /\ distance' = None
    /\ EchoReturn

\* the program's steps of one iteration
IterStep ==
    \/ EchoStart
    \/ SetTimeout
    \/ WaitHigh
    \/ WaitHighBody
    \/ ReadEnd
    \/ SetTimeout2
    \/ WaitLow
    \/ WaitLowBody
    \/ EchoCompute
    \/ EchoRaise
    \/ Gate
    \/ Capture
    \/ Classify
    \/ Decide
    \/ DispenseStep
    \/ DispenseReturn
    \/ Update

NextIter ==
    \/ Tick
    \/ EchoStart
    \/ SetTimeout
    \/ WaitHigh
    \/ WaitHighBody
    \/ ReadEnd
    \/ SetTimeout2
    \/ WaitLow
    \/ WaitLowBody
    \/ EchoCompute
    \/ EchoRaise
    \/ Gate
    \/ Capture
    \/ Classify
    \/ Decide
    \/ DispenseStep
    \/ DispenseReturn
    \/ Update

\* the interpreter keeps running the program, and time keeps passing
SpecIter == InitIter /\ [][NextIter]_vars /\ WF_vars(IterStep) /\ WF_vars(Tick)

\* ------------------------------------------------------------------------
\* Properties
\* ------------------------------------------------------------------------
\* positions of an iteration after its gate (lines 422-431) has been evaluated
AfterGate == {"capture", "classify", "decide", "dispense", "update", "sleep", "except"}

\* the reading of this iteration is numeric and below the detection threshold
ReadingInRange == distance # None /\ distance < ANIMAL_DETECTION_DISTANCE * 100

\* C1: within one run of monitor(), any two dispenses for which
\* process_detection() returned True have trigger timestamps that differ by
\* more than cycle_time seconds.
C1_CooldownBetweenSuccesses ==
    \A i, j \in 1..Len(successes) :
        i < j => successes[j] - successes[i] > cycle_time * TicksPerSec

C1_Witness == Len(successes) >= 2

\* C2 (as claimed): whenever a dispense_food() call on a present servo has
\* ended, by returning or by an error of a signaling call, the last duty cycle
\* the line accepted is 0.
C2_DispenseEndsStopped ==
    (servo_pwm /\ dispense_end \in {"returned", "raised"}) => duty = 0

\* C3 (as claimed): when monitor() was cancelled by a KeyboardInterrupt and
\* control is back at the main menu, the servo's duty cycle is 0.
C3_StoppedAtMenuAfterCancel ==
    (pc = "menu" /\ cancelled) => duty = 0

\* C4: an iteration whose capture yields no image ends without calling
\* dispense_food() and with last_detection_time unchanged, and the next
\* in-range iteration of the run is not held back by the cooldown gate
\* (the clock being non-decreasing).
C4_FailedCaptureState ==
    (caller = "monitor" /\ image = "none") =>
        (pc = "sleep" /\ "dispense" \notin calls /\ last_detection_time = ldt0)

C4_RetryPassesGate ==
    (caller = "monitor" /\ retry = "retried") =>
        (pc \in AfterGate /\ remaining = None /\ (pc = "sleep" => calls # {}))

C4_FailedCaptureKeepsCooldown == C4_FailedCaptureState /\ C4_RetryPassesGate

C4_Witness == caller = "monitor" /\ retry = "retried" /\ pc = "capture" /\ ldt0 > 0

\* C5: in an iteration whose reading is None or >= 50 cm (50 included),
\* capture, classification and dispense are not invoked and
\* last_detection_time is unchanged.
C5_OutOfRangeDoesNothing ==
    (caller = "monitor" /\ pc \in AfterGate
        /\ (distance = None \/ distance >= ANIMAL_DETECTION_DISTANCE * 100)) =>
        (pc = "sleep" /\ calls = {} /\ last_detection_time = ldt0 /\ remaining = None)

C5_Witness ==
    caller = "monitor" /\ pc = "sleep" /\ distance = ANIMAL_DETECTION_DISTANCE * 100

\* C6: in an in-range iteration with current_time - last_detection_time <=
\* cycle_time (equality included), capture, classification and dispense are
\* skipped, last_detection_time is unchanged and the remaining cooldown is
\* reported.
C6_CooldownSkipsPipeline ==
    (caller = "monitor" /\ pc \in AfterGate /\ ReadingInRange
        /\ current_time - ldt0 <= cycle_time * TicksPerSec) =>
        (pc = "sleep" /\ calls = {} /\ last_detection_time = ldt0 /\ remaining # None)

C6_Witness ==
    /\ caller = "monitor" /\ pc = "sleep" /\ ReadingInRange
    /\ ldt0 > 0
    /\ current_time - ldt0 = cycle_time * TicksPerSec

\* C7: when a frame was captured and its classification is strictly below
\* the 10% threshold, dispense_food() is not called and last_detection_time
\* is not updated.
C7_BelowThresholdNoDispense ==
    (caller = "monitor" /\ color_pixels # None
        /\ color_pixels * 100 < COLOR_THRESHOLD * MaxPixels) =>
        (pc \in {"decide", "sleep"} /\ "dispense" \notin calls
            /\ last_detection_time = ldt0)

C7_Witness ==
    /\ caller = "monitor" /\ pc = "sleep" /\ image = "frame"
    /\ color_pixels > 0 /\ color_pixels * 100 < COLOR_THRESHOLD * MaxPixels

\* C8 (as claimed): on the first in-range reading of a run, with no dispense
\* yet, the cooldown gate passes whatever the clock reads; a frame classified
\* at or above the threshold then has dispense_food() called in the same
\* iteration, and the timestamp is set when it returns.
C8_FirstTriggerPasses ==
    (caller = "monitor" /\ pc \in AfterGate /\ ReadingInRange /\ n_inrange = 1
        /\ ldt0 = 0 /\ Len(successes) <= 1) =>
        /\ remaining = None
        /\ pc # "sleep" \/ calls # {}
        /\ (pc = "sleep" /\ color_pixels # None
              /\ color_pixels * 100 >= COLOR_THRESHOLD * MaxPixels) =>
                ("dispense" \in calls /\ last_detection_time = current_time)

\* C9: an exception raised in an iteration of monitor() is caught by the
\* loop: last_detection_time is unchanged, and the handler goes on to the
\* next iteration (unless a KeyboardInterrupt ends the program meanwhile).
C9_ErrorCaughtState ==
    exc # "none" => (pc = "except" /\ caller = "monitor" /\ last_detection_time = ldt0)

C9_HandlerContinues ==
    pc = "except" =>
        \/ pc' = "get_distance" /\ caller' = "monitor"
              /\ last_detection_time' = last_detection_time
        \/ exit_cause' = "interrupt"

C9_ErrorIsNonMatch ==
    []C9_ErrorCaughtState /\ [][C9_HandlerContinues]_vars

C9_Witness == pc = "except" /\ exc = "dispense" /\ duty = servo_open

\* C10 (as claimed): a computed distance <= 2 cm or >= 400 cm gives None,
\* and every numeric value returned lies strictly between 2 and 400.
C10_PlausibilityWindow ==
    (pc = "gate" /\ dur # None) =>
        /\ (DistanceRaw(dur) <= MinDistance * DistPerCm
              \/ DistanceRaw(dur) >= MaxDistance * DistPerCm) => distance = None
        /\ distance # None =>
              (MinDistance * 100 < distance /\ distance < MaxDistance * 100)

\* C11: the food-level estimate starts at 100, is never negative, and a step
\* changes it only when it is the update after a successful dispense, which
\* takes exactly one fixed step off it, floored at 0; so it never increases.
C11_FoodLevelRange == food_level >= 0 /\ food_level <= 100

C11_FoodLevelStep ==
    IF pc = "update" /\ pc' = "sleep"
    THEN /\ food_level' = (IF food_level - FOOD_STEP < 0 THEN 0 ELSE food_level - FOOD_STEP)
         /\ food_level' <= food_level
    ELSE food_level' = food_level

C11_FoodLevel ==
    food_level = 100 /\ []C11_FoodLevelRange /\ [][C11_FoodLevelStep]_vars

\* the third successful dispense: the estimate was floored and stays at 0
C11_Witness == food_level = 0 /\ pc = "sleep" /\ successes # <<>> /\ carry = None

\* C16: a dispense_food() call that returns normally with a servo present
\* has commanded open (7.0), stop (7.5), 0, close (8.0), stop (7.5), 0 in
\* this order, open and close each held for rotation_time; and at no point
\* of a call is close commanded before the open phase was stopped.
C16_CloseAfterOpenStopped ==
    \A i \in 1..Len(cmds) :
        cmds[i][1] = servo_close =>
            \E j \in 1..(i - 1) : \E k \in 1..(j - 1) :
                cmds[k][1] = servo_open /\ cmds[j][1] = servo_stop

C16_ReturnedSequence ==
    (pc = "dispense" /\ dispense_end' = "returned" /\ servo_pwm) =>
        /\ cmds = << <<70, 10>>, <<75, 1>>, <<0, 2>>, <<80, 10>>, <<75, 1>>, <<0, 0>> >>
        /\ cmds[1][2] = rotation_time /\ cmds[4][2] = rotation_time

C16_DispenseCommandOrder ==
    []C16_CloseAfterOpenStopped /\ [][C16_ReturnedSequence]_vars

C16_Witness == pc = "update" /\ servo_pwm /\ Len(cmds) = 6 /\ duty = 0

\* C17 (as claimed): after a KeyboardInterrupt delivered in an iteration of
\* monitor(), no further iteration is started.
C17_InterruptStopsLoop ==
    [][(caller = "monitor" /\ intr) => ~(caller' = "monitor" /\ pc' = "get_distance")]_vars

\* C18 (as claimed): between two open commands of one run of monitor() more
\* than cycle_time elapses, whatever became of the earlier dispense.
C18_OpenOncePerWindow ==
    [][(caller = "monitor" /\ pc = "dispense" /\ dstep = 0 /\ dstep' = 1
          /\ last_open # None) =>
            current_time - last_open > cycle_time * TicksPerSec]_vars

\* C18 (amended): an open command of the loop comes more than cycle_time
\* after every trigger of this run whose dispense returned normally.
C18_OpenAfterSuccessOutsideWindow ==
    (caller = "monitor" /\ pc = "dispense" /\ dstep >= 1) =>
        \A i \in 1..Len(successes) :
            current_time - successes[i] > cycle_time * TicksPerSec

C18_Witness ==
    caller = "monitor" /\ pc = "dispense" /\ dstep = 1 /\ duty = servo_open
        /\ successes # <<>>

\* C19 (as claimed): a dispense that succeeded with trigger time t in an
\* earlier run of monitor() keeps the next run from dispensing (commanding
\* the servo) until the clock exceeds t + cycle_time.
C19_CooldownCarriesOver ==
    (caller = "monitor" /\ pc = "dispense" /\ dstep >= 1 /\ carry # None) =>
        current_time - carry > cycle_time * TicksPerSec

\* C20 (as claimed): process_detection() returns True only after the servo
\* was driven through the whole open and close sequence in that call, and
\* without a servo no dispense succeeds and no cooldown starts.
C20_SuccessMeansServoDriven ==
    /\ pc = "update" =>
          (servo_pwm /\ [i \in 1..Len(cmds) |-> cmds[i][1]] = DispenseSeq)
    /\ ~servo_pwm => (successes = <<>> /\ last_detection_time = 0)

\* C12: whatever name the constructor is given, known or unknown and in any
\* letter case, the profile set up is one of the ten known ones and has at
\* least one range pair: a known name gets its own ranges, an unknown one
\* makes target_color 'brown' with the brown ranges.
C12_ProfileAfterSetup ==
    pc = "ready" =>
        /\ target_color \in {brown, black, white, gray, orange, yellow, red, green, blue, tan}
        /\ Len(color_ranges) >= 1
        /\ color_ranges = all_color_ranges[target_color]
        /\ IF base \in {brown, black, white, gray, orange, yellow, red, green, blue, tan}
           THEN target_color = base
           ELSE target_color = brown /\ Len(color_ranges) = 4

\* a known name given in capitals, and an unknown one
C12_Witness ==
    /\ pc = "ready"
    /\ \/ arg = <<"T", "A", "N">> /\ target_color = tan
       \/ arg = <<"P", "i", "n", "k">> /\ target_color = brown

\* C14: for a fixed frame, the matched-pixel count for the first n range
\* pairs of the profile is at most the count for the first n+1, and the
\* percentage returned lies within [0, 100].
C14_MoreRangesMatchMore ==
    pc = "classified" =>
        /\ \A n \in 0..(Len(color_ranges) - 1) : matched[n] <= matched[n + 1]
        /\ 0 <= color_percentage /\ color_percentage <= 100 * 100

\* the added range pair makes pixels match, on top of some that matched before
C14_Witness ==
    /\ pc = "classified"
    /\ \E n \in 1..(Len(color_ranges) - 1) : matched[n] < matched[n + 1]
    /\ color_percentage > 0

\* C13: every iteration of monitor() comes to its end, whatever the echo
\* line reads, however the capture ends and whatever the classifier counts.
C13_IterationTerminates == (pc = "trigger") ~> (pc \in IterEnd)

\* both waits ran into their timeout and the iteration ended
C13_Witness == pc = "sleep" /\ timed_out = {"high", "low"}

\* C15 (as claimed): when one of the echo waits ended by its timeout,
\* get_distance() returns None.
C15_TimeoutGivesNone ==
    (pc = "gate" /\ timed_out # {} /\ dur # None) => distance = None

\* C21: whenever an iteration of monitor() reports the remaining cooldown,
\* the value reported is the whole number of seconds left of the cooldown,
\* cut off towards zero, and lies between 0 and cycle_time.
C21_RemainingInWindow ==
    (caller = "monitor" /\ pc = "sleep" /\ ReadingInRange /\ calls = {}) =>
        /\ remaining \in 0..cycle_time
        /\ remaining * TicksPerSec
              <= cycle_time * TicksPerSec - (current_time - last_detection_time)
        /\ cycle_time * TicksPerSec - (current_time - last_detection_time)
              < (remaining + 1) * TicksPerSec

\* half a second into a cooldown that a dispense of this run started: int()
\* cuts the fraction off
C21_Witness ==
    /\ caller = "monitor" /\ pc = "sleep" /\ ReadingInRange /\ calls = {}
    /\ ldt0 > 0
    /\ current_time > last_detection_time
    /\ remaining * TicksPerSec
          < cycle_time * TicksPerSec - (current_time - last_detection_time)

====
